---- MODULE Spec2Model ----
(***************************************************************************)
(* Orchestra back end: the process supervisor of src-tauri/src/lib.rs      *)
(* (start_claude_process, stop_claude_process, parse_claude_json_line) and *)
(* the approval gateway of src-tauri/src/mcp_manager.rs                    *)
(* (handle_approval_request, respond_to_http_approval).                    *)
(***************************************************************************)
EXTENDS Integers, Sequences, FiniteSets, TLC

\* ------------------------------------------------------------------ bounds
\* Lines the child process may write, stdout and stderr together, before it exits.
MaxLines == 2
\* Approval requests that arrive (one handler each).
MaxHandlers == 2
\* Content items of one assistant message.
MaxItems == 3

\* ------------------------------------------------------------------ text
\* A text is a sequence of one-character strings.
IsWhitespace(c) == c \in {" ", "\t"}

RECURSIVE TrimStart(_)
TrimStart(s) ==
    IF s # <<>> /\ IsWhitespace(Head(s)) THEN TrimStart(Tail(s)) ELSE s

RECURSIVE TrimEnd(_)
TrimEnd(s) ==
    IF s # <<>> /\ IsWhitespace(s[Len(s)])
    THEN TrimEnd(SubSeq(s, 1, Len(s) - 1))
    ELSE s

\* str::trim
Trim(s) == TrimEnd(TrimStart(s))

\* [String]::join("\n")
RECURSIVE Join(_)
Join(parts) ==
    IF parts = <<>> THEN <<>>
    ELSE IF Len(parts) = 1 THEN parts[1]
    ELSE parts[1] \o <<"\n">> \o Join(Tail(parts))

\* Option<T>: None is the empty sequence, Some(x) is <<x>>.
None == <<>>
Some(x) == <<x>>

\* ------------------------------------------------------------------ stdout protocol
\* A line of the child's stdout: its raw text and what serde_json::from_str
\* makes of it (json = FALSE: not JSON; type = "": JSON without a string
\* "type"; items: the message.content array of an assistant message).
TextItem(t) == [type |-> "text", text |-> t]
ToolUseItem == [type |-> "tool_use", text |-> <<>>]
ToolResultItem(t) == [type |-> "tool_result", text |-> t]

ResultLine ==
    [json |-> TRUE, type |-> "result", raw |-> <<"{", "r", "}">>, items |-> <<>>]
AssistantLine ==
    [json |-> TRUE, type |-> "assistant", raw |-> <<"{", "a", "}">>,
     items |-> <<TextItem(<<"H", "i">>), ToolUseItem, ToolResultItem(<<" ", "o", "k">>)>>]
PlainLine ==
    [json |-> FALSE, type |-> "", raw |-> <<"o", "o", "p", "s">>, items |-> <<>>]
BlankLine ==
    [json |-> FALSE, type |-> "", raw |-> <<" ">>, items |-> <<>>]
\* A line that is valid JSON but no object with a "type": the text 42.
NumberLine ==
    [json |-> TRUE, type |-> "", raw |-> <<"4", "2">>, items |-> <<>>]

\* An item of reader.lines() that is Err(io::Error) instead of a line, e.g. for
\* bytes that are not valid UTF-8: on stdout and on stderr.
StdoutIoError ==
    [json |-> FALSE, type |-> "io::Error", raw |-> <<>>, items |-> <<>>]
StderrIoError == <<"io::Error">>
IsStdoutReadError(item) == item = StdoutIoError
IsStderrReadError(item) == item = StderrIoError

StdoutLines == {ResultLine, AssistantLine, PlainLine, BlankLine, NumberLine}
\* Lines of the child's stderr: plain text, an empty line, and the text of a
\* structured message.
StderrLines == {<<"w", "a", "r", "n">>, <<>>, ResultLine.raw}

ToolResultPrefix == <<"T", "o", "o", "l", " ", "r", "e", "s", "u", "l", "t", ":", " ">>

\* Mutant: a tool result is collected without its prefix.
ItemTexts_NoPrefix(item) ==
    IF Trim(item.text) = <<>> \/ item.type = "tool_use" THEN <<>>
    ELSE IF item.type = "text" THEN <<item.text>> ELSE <<Trim(item.text)>>

\* The strings pushed on text_results for one content item (lib.rs 79-105).
ItemTexts(item) ==
    IF item.type = "text"
    THEN IF Trim(item.text) # <<>> THEN <<item.text>> ELSE <<>>
    ELSE IF item.type = "tool_result"
    THEN IF Trim(item.text) # <<>>
         THEN <<ToolResultPrefix \o Trim(item.text)>>
         ELSE <<>>
    ELSE <<>>

RECURSIVE CollectTexts(_)
CollectTexts(items) ==
    IF items = <<>> THEN <<>>
    ELSE ItemTexts(Head(items)) \o CollectTexts(Tail(items))

\* Mutant: a message of a kind the classifier does not know is echoed.
ParseClaudeJsonLine_EchoesUnknown(line) ==
    IF line.json /\ line.type = "assistant"
    THEN IF CollectTexts(line.items) # <<>>
         THEN Some(Join(CollectTexts(line.items)))
         ELSE None
    ELSE IF line.json /\ line.type \in {"system", "user", "result"} THEN None
    ELSE IF Trim(line.raw) # <<>> THEN Some(line.raw) ELSE None

\* parse_claude_json_line: Option<String>.
ParseClaudeJsonLine(line) ==
    IF ~line.json
    THEN IF Trim(line.raw) # <<>> THEN Some(line.raw) ELSE None
    ELSE IF line.type = "assistant"
    THEN IF CollectTexts(line.items) # <<>>
         THEN Some(Join(CollectTexts(line.items)))
         ELSE None
    ELSE None

\* The stdout reader's own test for the terminal message (lib.rs 366-368).
IsResultLine(line) == line.json /\ line.type = "result"

\* ------------------------------------------------------------------ events
OutputEvent(content, isError) ==
    [kind |-> "claude-output", content |-> content, is_error |-> isError,
     success |-> FALSE]
CompletedEvent(success) ==
    [kind |-> "claude-completed", content |-> <<>>, is_error |-> FALSE,
     success |-> success]

ExitedWithCode == <<"e", "x", "i", "t", " ", "1">>
ProcessError == <<"w", "a", "i", "t", " ", "e", "r", "r">>

ProcIds == {"p1"}
\* Ids a caller may pass to stop_claude_process: tracked ones and a stranger.
StopIds == ProcIds \cup {"ghost"}

VARIABLES
    processes,          \* AppState.processes: id -> status ("absent" = no record)
    running_processes,  \* AppState.running_processes: the ids that have a handle
    child,              \* Arc<Mutex<Option<Child>>> of an id: "some" | "none"
    os,                 \* the OS process: "unborn" | "alive" | "exit0" | "exit1" | "killed"
    out,                \* lines the child has written on stdout
    errs,               \* lines the child has written on stderr
    sup,                \* supervisor thread: "idle" | "spawned" | "done"
    rdOut,              \* stdout reader: "off" | "read" | "emit" | "eof"
    outPos,             \* stdout lines consumed
    rdErr,              \* stderr reader: "off" | "read" | "eof"
    errPos,             \* stderr lines consumed
    waitPc,             \* wait loop: "off" | "wait" | "check" | "emit" | "done"
    waitStatus,         \* what child.wait() returned: "none" | "exit0" | "exit1" | "err"
    completion_sent,    \* the AtomicBool of an id
    events,             \* what was emitted for an id, in emission order
    startResult,        \* what start_claude_process returned for an id:
                        \* "none" (not called) | "Ok" | "Err"
    lastStop            \* the last stop_claude_process call: what it returned,
                        \* and whether it found nothing to stop

\* What the commands returned to their callers.
callVars == <<startResult, lastStop>>

supVars == <<processes, running_processes, child, os, out, errs, sup, rdOut,
             outPos, rdErr, errPos, waitPc, waitStatus, completion_sent, events,
             callVars>>

\* ------------------------------------------------------------------ gateway data
\* serde_json values of the wire response.
JNull == [t |-> "null", v |-> <<>>]
JString(s) == [t |-> "string", v |-> s]
\* Option<T> -> JSON: None is null.
JOption(o) == IF o = None THEN JNull ELSE JString(o[1])

\* ApprovalResponse (mcp_manager.rs 34-40).
Blocked == <<"b", "l", "o", "c", "k", "e", "d">>
SafeInput == <<"l", "s">>
Decisions ==
    {[behavior |-> "Allow", message |-> None, updated_input |-> None],
     [behavior |-> "Deny", message |-> Some(Blocked), updated_input |-> None],
     [behavior |-> "Allow", message |-> None, updated_input |-> Some(SafeInput)]}
NoDecision == [behavior |-> "", message |-> None, updated_input |-> None]

\* The behavior token of the wire response (mcp_manager.rs 134-137).
\* Mutant: the behavior is rendered as the enum variant is spelled.
McpBehavior_Capitalized(b) == b

McpBehavior(b) == IF b = "Allow" THEN "allow" ELSE "deny"

\* The body the handler answers with (mcp_manager.rs 143-147).
Render(d) ==
    [behavior |-> McpBehavior(d.behavior),
     message |-> JOption(d.message),
     updatedInput |-> JOption(d.updated_input)]

NoBody == [behavior |-> "", message |-> JNull, updatedInput |-> JNull]
NoAnswer == [status |-> "", body |-> NoBody]

Handlers == 1..MaxHandlers
\* Request ids: one per handler for requests on distinct ids; the ids 1 and 2
\* are the ones requests and relay calls share when ids may collide.
ReqIds == 1..MaxHandlers
SharedIds == {x \in ReqIds : x <= 2}
\* Calls of respond_to_http_approval made while ids may collide: enough for a
\* call and a repeated call on one id, or for one call on each shared id.
MaxCalls == Cardinality(SharedIds)

\* A oneshot channel: nothing sent yet, a value sent, or the sender dropped unsent.
EmptyChan == [state |-> "empty", value |-> NoDecision]
SentChan(d) == [state |-> "sent", value |-> d]
ClosedChan == [state |-> "closed", value |-> NoDecision]

FreeLock == [held |-> FALSE, id |-> 0, decision |-> NoDecision, entry |-> 0]

VARIABLES
    pending,      \* pending_http_approvals: request id -> the handler whose
                  \* response_tx the entry holds (0 = no entry)
    lock,         \* the table's Mutex: free, or held by a relay call in progress
    hpc,          \* handler: "start" | "registered" | "awaiting" | "answered"
                  \*          | "failed" | "cancelled"
    hid,          \* the request id a handler registered (0 = none yet)
    chan,         \* the oneshot channel a handler created
    answer,       \* the HTTP response a handler returned
    notified,     \* request ids announced by a tool-approval-request event
    ret,          \* what the last finished respond_to_http_approval returned
    nCalls,       \* respond_to_http_approval calls begun
    fulfilledOk   \* a call for the id returned Ok since the id was last registered

gwVars == <<pending, lock, hpc, hid, chan, answer, notified, ret, nCalls,
            fulfilledOk>>

\* ------------------------------------------------------------------ classifier
\* A call of parse_claude_json_line on its own: the line handed over (none or
\* one) and the value returned (none yet, or one).
VARIABLES
    clsIn,
    clsOut

clsVars == <<clsIn, clsOut>>

\* ------------------------------------------------------------------ lock holders
\* A call of stop_claude_process taken step by step: where it is, the id it
\* was given, whether running_processes.remove found a handle, and the table
\* locks its guards hold.
VARIABLES
    stopCall

lockVars == <<stopCall>>

\* ------------------------------------------------------------------ decision relay
\* McpManager::respond_to_approval around respond_to_http_approval: the legacy
\* polling table pending_approvals (the ids in it), what the last finished
\* respond_to_approval returned, how many calls have returned, and the id the
\* last request_approval returned (0 before the first).
VARIABLES
    pending_approvals,
    respondRet,
    nResponded,
    requestRet

relayVars == <<pending_approvals, respondRet, nResponded, requestRet>>

\* ------------------------------------------------------------------ Start, step by step
\* A call of start_claude_process taken step by step: where it is, the id it
\* generated and its local record; the pid stored with each record of the
\* process table; the record the last successful start returned; and what the
\* last list_processes returned.
VARIABLES
    startCall,
    storedPid,
    startRet,
    listRet

startVars == <<startCall, storedPid, startRet, listRet>>

extVars == <<clsVars, lockVars, relayVars, startVars>>

vars == <<supVars, gwVars, extVars>>

GwInit ==
    /\ pending = [x \in ReqIds |-> 0]
    /\ lock = FreeLock
    /\ hpc = [h \in Handlers |-> "start"]
    /\ hid = [h \in Handlers |-> 0]
    /\ chan = [h \in Handlers |-> EmptyChan]
    /\ answer = [h \in Handlers |-> NoAnswer]
    /\ notified = {}
    /\ ret = [id |-> 0, res |-> "none"]
    /\ nCalls = 0
    /\ fulfilledOk = [x \in ReqIds |-> FALSE]

\* No stop_claude_process call was made yet.
NoStop == [ret |-> "none", noop |-> FALSE]

SupInit ==
    /\ processes = [p \in ProcIds |-> "absent"]
    /\ running_processes = {}
    /\ child = [p \in ProcIds |-> "none"]
    /\ os = [p \in ProcIds |-> "unborn"]
    /\ out = [p \in ProcIds |-> <<>>]
    /\ errs = [p \in ProcIds |-> <<>>]
    /\ sup = [p \in ProcIds |-> "idle"]
    /\ rdOut = [p \in ProcIds |-> "off"]
    /\ outPos = [p \in ProcIds |-> 0]
    /\ rdErr = [p \in ProcIds |-> "off"]
    /\ errPos = [p \in ProcIds |-> 0]
    /\ waitPc = [p \in ProcIds |-> "off"]
    /\ waitStatus = [p \in ProcIds |-> "none"]
    /\ completion_sent = [p \in ProcIds |-> FALSE]
    /\ events = [p \in ProcIds |-> <<>>]
    /\ startResult = [p \in ProcIds |-> "none"]
    /\ lastStop = NoStop

\* Mutant: new events are put in front of the ones already emitted.
Emit_Prepends(p, evs) == events' = [events EXCEPT ![p] = evs \o @]

Emit(p, evs) == events' = [events EXCEPT ![p] = @ \o evs]

\* ------------------------------------------------------------------ supervisor
\* start_claude_process, the spawn having succeeded (lib.rs 305-334): the record
\* is stored as "running", the handle is stored, the supervisor thread is started.
StartClaudeProcess(p) ==
    /\ processes[p] = "absent"
    /\ os[p] = "unborn"
    /\ os' = [os EXCEPT ![p] = "alive"]
    /\ child' = [child EXCEPT ![p] = "some"]
    /\ running_processes' = running_processes \cup {p}
    /\ processes' = [processes EXCEPT ![p] = "running"]
    /\ sup' = [sup EXCEPT ![p] = "spawned"]
    /\ startResult' = [startResult EXCEPT ![p] = "Ok"]
    /\ UNCHANGED <<out, errs, rdOut, outPos, rdErr, errPos, waitPc, waitStatus,
                   completion_sent, events, lastStop>>
    /\ UNCHANGED <<gwVars, extVars>>

\* Mutant: the record built before the spawn is stored although the spawn failed.
AfterSpawnError_KeepsRecord(table, p) == [table EXCEPT ![p] = "starting"]

\* The process table after a failed spawn: the `?` of lib.rs 313 returns before
\* either insert.
AfterSpawnError(table, p) == table

\* start_claude_process, the spawn having failed (lib.rs 305-313): the error is
\* returned; the id, a fresh UUID, is never seen again.
StartFails(p) ==
    /\ processes[p] = "absent"
    /\ os[p] = "unborn"
    /\ os' = [os EXCEPT ![p] = "nospawn"]
    /\ processes' = AfterSpawnError(processes, p)
    /\ startResult' = [startResult EXCEPT ![p] = "Err"]
    /\ UNCHANGED <<running_processes, child, out, errs, sup, rdOut, outPos, rdErr,
                   errPos, waitPc, waitStatus, completion_sent, events, lastStop>>
    /\ UNCHANGED <<gwVars, extVars>>

\* The supervisor thread (lib.rs 343-349, 466): guard.take(); with a child it
\* starts the two readers and the wait loop, without one it does nothing.
SupervisorTake(p) ==
    /\ sup[p] = "spawned"
    /\ sup' = [sup EXCEPT ![p] = "done"]
    /\ IF child[p] = "some"
       THEN /\ child' = [child EXCEPT ![p] = "none"]
            /\ rdOut' = [rdOut EXCEPT ![p] = "read"]
            /\ rdErr' = [rdErr EXCEPT ![p] = "read"]
            /\ waitPc' = [waitPc EXCEPT ![p] = "wait"]
       ELSE UNCHANGED <<child, rdOut, rdErr, waitPc>>
    /\ UNCHANGED <<processes, running_processes, os, out, errs, outPos, errPos,
                   waitStatus, completion_sent, events>>
    /\ UNCHANGED callVars
    /\ UNCHANGED <<gwVars, extVars>>

\* The child process writes a line on stdout.
ProcWriteStdout(p, line) ==
    /\ os[p] = "alive"
    /\ Len(out[p]) + Len(errs[p]) < MaxLines
    /\ out' = [out EXCEPT ![p] = Append(@, line)]
    /\ UNCHANGED <<processes, running_processes, child, os, errs, sup, rdOut,
                   outPos, rdErr, errPos, waitPc, waitStatus, completion_sent,
                   events>>
    /\ UNCHANGED callVars
    /\ UNCHANGED <<gwVars, extVars>>

\* The child process writes a line on stderr.
ProcWriteStderr(p, line) ==
    /\ os[p] = "alive"
    /\ Len(out[p]) + Len(errs[p]) < MaxLines
    /\ errs' = [errs EXCEPT ![p] = Append(@, line)]
    /\ UNCHANGED <<processes, running_processes, child, os, out, sup, rdOut,
                   outPos, rdErr, errPos, waitPc, waitStatus, completion_sent,
                   events>>
    /\ UNCHANGED callVars
    /\ UNCHANGED <<gwVars, extVars>>

\* The child process exits on its own, with status 0 or with a non-zero code.
ProcExit(p, status) ==
    /\ os[p] = "alive"
    /\ os' = [os EXCEPT ![p] = status]
    /\ UNCHANGED <<processes, running_processes, child, out, errs, sup, rdOut,
                   outPos, rdErr, errPos, waitPc, waitStatus, completion_sent,
                   events>>
    /\ UNCHANGED callVars
    /\ UNCHANGED <<gwVars, extVars>>

\* Mutant: the stdout reader emits every line as it came.
StdoutLineEvents_EchoesRaw(line) == <<OutputEvent(line.raw, FALSE)>>

\* What the stdout reader emits for a line that is not the terminal message
\* (lib.rs 383-392).
StdoutLineEvents(line) ==
    IF ~IsStdoutReadError(line) /\ ParseClaudeJsonLine(line) # None
    THEN <<OutputEvent(ParseClaudeJsonLine(line)[1], FALSE)>>
    ELSE <<>>

\* One turn of the stdout reader's loop (lib.rs 363-393). On the terminal
\* message it swaps completion_sent to true and goes on to emit the completion
\* only if the flag was false; the line itself is never emitted.
StdoutRead(p) ==
    /\ rdOut[p] = "read"
    /\ outPos[p] < Len(out[p])
    /\ outPos' = [outPos EXCEPT ![p] = @ + 1]
    /\ LET line == out[p][outPos[p] + 1] IN
       IF IsResultLine(line)
       THEN /\ completion_sent' = [completion_sent EXCEPT ![p] = TRUE]
            /\ rdOut' = [rdOut EXCEPT ![p] =
                            IF completion_sent[p] THEN "read" ELSE "emit"]
            /\ UNCHANGED events
       ELSE /\ Emit(p, StdoutLineEvents(line))
            /\ UNCHANGED <<completion_sent, rdOut>>
    /\ UNCHANGED <<processes, running_processes, child, os, out, errs, sup,
                   rdErr, errPos, waitPc, waitStatus>>
    /\ UNCHANGED callVars
    /\ UNCHANGED <<gwVars, extVars>>

\* The completion the stdout reader emits after a winning swap (lib.rs 372-375).
StdoutEmitCompleted(p) ==
    /\ rdOut[p] = "emit"
    /\ Emit(p, <<CompletedEvent(TRUE)>>)
    /\ rdOut' = [rdOut EXCEPT ![p] = "read"]
    /\ UNCHANGED <<processes, running_processes, child, os, out, errs, sup,
                   outPos, rdErr, errPos, waitPc, waitStatus, completion_sent>>
    /\ UNCHANGED callVars
    /\ UNCHANGED <<gwVars, extVars>>

\* End of stdout: the child is gone and every line was consumed.
StdoutEof(p) ==
    /\ rdOut[p] = "read"
    /\ outPos[p] = Len(out[p])
    /\ os[p] \notin {"unborn", "alive"}
    /\ rdOut' = [rdOut EXCEPT ![p] = "eof"]
    /\ UNCHANGED <<processes, running_processes, child, os, out, errs, sup,
                   outPos, rdErr, errPos, waitPc, waitStatus, completion_sent,
                   events>>
    /\ UNCHANGED callVars
    /\ UNCHANGED <<gwVars, extVars>>

\* What the stderr reader emits for a line (lib.rs 406-414).
StderrLineEvents(line) ==
    IF IsStderrReadError(line) THEN <<>> ELSE <<OutputEvent(line, TRUE)>>

\* One turn of the stderr reader's loop (lib.rs 405-415).
StderrRead(p) ==
    /\ rdErr[p] = "read"
    /\ errPos[p] < Len(errs[p])
    /\ errPos' = [errPos EXCEPT ![p] = @ + 1]
    /\ Emit(p, StderrLineEvents(errs[p][errPos[p] + 1]))
    /\ UNCHANGED <<processes, running_processes, child, os, out, errs, sup,
                   rdOut, outPos, rdErr, waitPc, waitStatus, completion_sent>>
    /\ UNCHANGED callVars
    /\ UNCHANGED <<gwVars, extVars>>

StderrEof(p) ==
    /\ rdErr[p] = "read"
    /\ errPos[p] = Len(errs[p])
    /\ os[p] \notin {"unborn", "alive"}
    /\ rdErr' = [rdErr EXCEPT ![p] = "eof"]
    /\ UNCHANGED <<processes, running_processes, child, os, out, errs, sup,
                   rdOut, outPos, errPos, waitPc, waitStatus, completion_sent,
                   events>>
    /\ UNCHANGED callVars
    /\ UNCHANGED <<gwVars, extVars>>

\* Mutant: the wait loop reports the exit code of a successful exit too.
ExitErrorEvents_Always(status) == <<OutputEvent(ExitedWithCode, TRUE)>>

\* Mutant: the wait loop says nothing about a non-success exit.
ExitErrorEvents_Silent(status) == <<>>

\* The error line of a non-success exit (lib.rs 429-437).
ExitErrorEvents(status) ==
    IF status # "exit0" THEN <<OutputEvent(ExitedWithCode, TRUE)>> ELSE <<>>

\* child.wait() returns Ok(status) (lib.rs 425-437).
WaitReturn(p) ==
    /\ waitPc[p] = "wait"
    /\ os[p] \in {"exit0", "exit1"}
    /\ waitStatus' = [waitStatus EXCEPT ![p] = os[p]]
    /\ Emit(p, ExitErrorEvents(os[p]))
    /\ waitPc' = [waitPc EXCEPT ![p] = "check"]
    /\ UNCHANGED <<processes, running_processes, child, os, out, errs, sup,
                   rdOut, outPos, rdErr, errPos, completion_sent>>
    /\ UNCHANGED callVars
    /\ UNCHANGED <<gwVars, extVars>>

\* Where the wait loop goes after loading completion_sent (lib.rs 439).
AfterLoad(sent) == IF sent THEN "done" ELSE "emit"

\* The wait loop loads completion_sent (lib.rs 439); it does not set it.
WaitCheck(p) ==
    /\ waitPc[p] = "check"
    /\ waitPc' = [waitPc EXCEPT ![p] = AfterLoad(completion_sent[p])]
    /\ UNCHANGED <<processes, running_processes, child, os, out, errs, sup,
                   rdOut, outPos, rdErr, errPos, waitStatus, completion_sent,
                   events>>
    /\ UNCHANGED callVars
    /\ UNCHANGED <<gwVars, extVars>>

\* Mutant: the wait loop marks the record of the process that exited and drops
\* its handle.
WaitFallback_MarksExited(p) ==
    /\ waitPc[p] = "emit"
    /\ Emit(p, <<CompletedEvent(waitStatus[p] = "exit0")>>)
    /\ waitPc' = [waitPc EXCEPT ![p] = "done"]
    /\ processes' = [processes EXCEPT ![p] = "exited"]
    /\ running_processes' = running_processes \ {p}
    /\ UNCHANGED <<child, os, out, errs, sup,
                   rdOut, outPos, rdErr, errPos, waitStatus, completion_sent>>
    /\ UNCHANGED callVars
    /\ UNCHANGED <<gwVars, extVars>>

\* The fallback completion (lib.rs 440-444): success mirrors the exit status.
WaitFallback(p) ==
    /\ waitPc[p] = "emit"
    /\ Emit(p, <<CompletedEvent(waitStatus[p] = "exit0")>>)
    /\ waitPc' = [waitPc EXCEPT ![p] = "done"]
    /\ UNCHANGED <<processes, running_processes, child, os, out, errs, sup,
                   rdOut, outPos, rdErr, errPos, waitStatus, completion_sent>>
    /\ UNCHANGED callVars
    /\ UNCHANGED <<gwVars, extVars>>

\* child.wait() returns Err (lib.rs 449-457): the error line.
WaitError(p) ==
    /\ waitPc[p] = "wait"
    /\ waitStatus' = [waitStatus EXCEPT ![p] = "err"]
    /\ Emit(p, <<OutputEvent(ProcessError, TRUE)>>)
    /\ waitPc' = [waitPc EXCEPT ![p] = "errEmit"]
    /\ UNCHANGED <<processes, running_processes, child, os, out, errs, sup,
                   rdOut, outPos, rdErr, errPos, completion_sent>>
    /\ UNCHANGED callVars
    /\ UNCHANGED <<gwVars, extVars>>

\* ... then the completion, whatever completion_sent holds (lib.rs 458-462).
WaitErrorCompleted(p) ==
    /\ waitPc[p] = "errEmit"
    /\ Emit(p, <<CompletedEvent(FALSE)>>)
    /\ waitPc' = [waitPc EXCEPT ![p] = "done"]
    /\ UNCHANGED <<processes, running_processes, child, os, out, errs, sup,
                   rdOut, outPos, rdErr, errPos, waitStatus, completion_sent>>
    /\ UNCHANGED callVars
    /\ UNCHANGED <<gwVars, extVars>>

\* Mutant: a stop of an id that has no record stores a "stopped" record for it.
AfterStop_Inserts(table, id) ==
    [p \in ProcIds |-> IF p = id THEN "stopped" ELSE table[p]]

\* The process table after stop_claude_process (lib.rs 502-505): a record that
\* is there is marked "stopped" and stays in the table.
AfterStop(table, id) ==
    [p \in ProcIds |->
        IF p = id /\ table[p] # "absent" THEN "stopped" ELSE table[p]]

\* The id has no record, or its record is already marked stopped.
UnknownOrStopped(id) ==
    id \notin ProcIds \/ processes[id] \in {"absent", "stopped"}

\* What a stop_claude_process call returns (lib.rs 507), and whether its
\* argument was an id with nothing to stop.
StopCall(id) == [ret |-> "Ok", noop |-> UnknownOrStopped(id)]

\* stop_claude_process (lib.rs 488-508): remove the handle; kill the child only
\* if the handle still holds it; mark the record "stopped" if there is one.
StopClaudeProcess(id) ==
    /\ running_processes' = running_processes \ {id}
    /\ IF id \in running_processes /\ child[id] = "some"
       THEN /\ child' = [child EXCEPT ![id] = "none"]
            /\ os' = [os EXCEPT ![id] = IF @ = "alive" THEN "killed" ELSE @]
       ELSE UNCHANGED <<child, os>>
    /\ processes' = AfterStop(processes, id)
    /\ lastStop' = StopCall(id)
    /\ UNCHANGED <<out, errs, sup, rdOut, outPos, rdErr, errPos, waitPc,
                   waitStatus, completion_sent, events, startResult>>
    /\ UNCHANGED <<gwVars, extVars>>

SupNext ==
    \/ \E p \in ProcIds : StartClaudeProcess(p)
    \/ \E p \in ProcIds : StartFails(p)
    \/ \E p \in ProcIds : SupervisorTake(p)
    \/ \E p \in ProcIds, line \in StdoutLines : ProcWriteStdout(p, line)
    \/ \E p \in ProcIds, line \in StderrLines : ProcWriteStderr(p, line)
    \/ \E p \in ProcIds, status \in {"exit0", "exit1"} : ProcExit(p, status)
    \/ \E p \in ProcIds : StdoutRead(p)
    \/ \E p \in ProcIds : StdoutEmitCompleted(p)
    \/ \E p \in ProcIds : StdoutEof(p)
    \/ \E p \in ProcIds : StderrRead(p)
    \/ \E p \in ProcIds : StderrEof(p)
    \/ \E p \in ProcIds : WaitReturn(p)
    \/ \E p \in ProcIds : WaitCheck(p)
    \/ \E p \in ProcIds : WaitFallback(p)
    \/ \E p \in ProcIds : WaitError(p)
    \/ \E p \in ProcIds : WaitErrorCompleted(p)
    \/ \E id \in StopIds : StopClaudeProcess(id)

\* ------------------------------------------------------------------ gateway
\* The channel of the entry that insert() replaces: dropping the old entry
\* drops its sender, which closes a channel nothing was sent on.
\* Mutant: the replaced entry's sender stays alive.
DropSender_KeepsOpen(c) == c

DropSender(c) == IF c.state = "empty" THEN ClosedChan ELSE c

\* Mutant: the handler's guard outlives the insert block and is still held
\* while the handler notifies and suspends.
LockAfterInsert_Held(l) == [l EXCEPT !.held = TRUE]

\* The table's lock once the handler's insert block has ended
\* (mcp_manager.rs 82-96): the guard is a local of the block and is dropped
\* with it, so the lock is as it was before the handler took it.
LockAfterInsert(l) == l

\* handle_approval_request up to the end of its critical section
\* (mcp_manager.rs 80-96): a fresh channel, and insert under the lock.
\* Handlers are numbered in the order they take the lock.
HandlerRegister(h, x) ==
    /\ hpc[h] = "start"
    /\ \A g \in Handlers : g < h => hpc[g] # "start"
    /\ ~lock.held
    /\ pending' = [pending EXCEPT ![x] = h]
    /\ chan' = [g \in Handlers |->
                  IF g = pending[x] THEN DropSender(chan[g]) ELSE chan[g]]
    /\ hid' = [hid EXCEPT ![h] = x]
    /\ hpc' = [hpc EXCEPT ![h] = "registered"]
    /\ fulfilledOk' = [fulfilledOk EXCEPT ![x] = FALSE]
    /\ lock' = LockAfterInsert(lock)
    /\ UNCHANGED <<answer, notified, ret, nCalls>>
    /\ UNCHANGED <<supVars, extVars>>

\* The tool-approval-request event (mcp_manager.rs 99-112); then the handler
\* suspends on response_rx.
\* Mutant: the handler emits the notification before it stores its entry.
HandlerNotify_BeforeInsert(h) ==
    /\ hpc[h] = "start"
    /\ notified' = notified \cup {CHOOSE x \in SharedIds : TRUE}
    /\ UNCHANGED <<pending, lock, hpc, hid, chan, answer, ret, nCalls, fulfilledOk>>
    /\ UNCHANGED <<supVars, extVars>>

HandlerNotify(h) ==
    /\ hpc[h] = "registered"
    /\ notified' = notified \cup {hid[h]}
    /\ hpc' = [hpc EXCEPT ![h] = "awaiting"]
    /\ UNCHANGED <<pending, lock, hid, chan, answer, ret, nCalls, fulfilledOk>>
    /\ UNCHANGED <<supVars, extVars>>

\* Mutant: the handler forgets the decision's message.
RxAnswer_DropsMessage(c) ==
    IF c.state = "sent"
    THEN [status |-> "OK", body |-> [Render(c.value) EXCEPT !.message = JNull]]
    ELSE [status |-> "INTERNAL_SERVER_ERROR", body |-> NoBody]

\* Mutant: a closed channel is answered as if the request had been allowed.
RxAnswer_FailOpen(c) ==
    IF c.state = "sent"
    THEN [status |-> "OK", body |-> Render(c.value)]
    ELSE [status |-> "OK",
          body |-> Render([behavior |-> "Allow", message |-> None,
                           updated_input |-> None])]

\* What response_rx.await makes the handler return (mcp_manager.rs 115-153).
RxAnswer(c) ==
    IF c.state = "sent"
    THEN [status |-> "OK", body |-> Render(c.value)]
    ELSE [status |-> "INTERNAL_SERVER_ERROR", body |-> NoBody]

\* Mutant: the await gives up on its own while nothing was sent or dropped.
RxReady_TimesOut(c) == TRUE

\* response_rx.await (mcp_manager.rs 115) is ready: a value was sent or the
\* sender was dropped; nothing else wakes it.
\* Mutant: response_rx wakes the handler only when a value was sent.
RxReady_NeedsValue(c) == c.state = "sent"

RxReady(c) == c.state # "empty"

\* response_rx.await resolves: a value was sent, or the sender was dropped.
HandlerResume(h) ==
    /\ hpc[h] = "awaiting"
    /\ RxReady(chan[h])
    /\ answer' = [answer EXCEPT ![h] = RxAnswer(chan[h])]
    /\ hpc' = [hpc EXCEPT ![h] = IF RxAnswer(chan[h]).status = "OK"
                                 THEN "answered" ELSE "failed"]
    /\ UNCHANGED <<pending, lock, hid, chan, notified, ret, nCalls, fulfilledOk>>
    /\ UNCHANGED <<supVars, extVars>>

\* The table after the caller of a suspended handler went away. The handler
\* future is dropped; nothing in handle_approval_request runs on drop.
AfterCancel(table, h) == table

\* The caller of a suspended handler gives up (its connection closes, or an
\* enclosing timeout fires as in approval_tests.rs 188-193): the future is
\* dropped at its await point, and the receiver with it.
HandlerCancel(h) ==
    /\ hpc[h] = "awaiting"
    /\ hpc' = [hpc EXCEPT ![h] = "cancelled"]
    /\ pending' = AfterCancel(pending, h)
    /\ UNCHANGED <<lock, hid, chan, answer, notified, ret, nCalls, fulfilledOk>>
    /\ UNCHANGED <<supVars, extVars>>

\* Mutant: the receiver exists only once the handler is suspended on it.
RxAlive_AwaitingOnly(h) == hpc[h] = "awaiting"

\* The receiver of handler h's channel still exists.
RxAlive(h) == hpc[h] \in {"registered", "awaiting"}

\* Mutant: the entry is looked up and left in the table.
AfterRemove_Keeps(table, x) == table

\* The table after respond_to_http_approval's pending.remove(&approval_id).
AfterRemove(table, x) == [table EXCEPT ![x] = 0]

\* Mutant: the guard is dropped right after the removal, before the send.
RelayGuard_Unlocked(x, d, entry) ==
    [held |-> FALSE, id |-> x, decision |-> d, entry |-> entry]

\* The guard respond_to_http_approval holds from lock().await to its return
\* (mcp_manager.rs 439): the call's arguments and the entry it removed.
\* Mutant: the sender taken out of the table is that of another handler.
RelayGuard_OtherEntry(x, d, entry) ==
    [held |-> TRUE, id |-> x, decision |-> d,
     entry |-> IF entry = 0 THEN 0 ELSE (entry % MaxHandlers) + 1]

RelayGuard(x, d, entry) ==
    [held |-> TRUE, id |-> x, decision |-> d, entry |-> entry]

\* respond_to_http_approval takes the lock and removes the entry
\* (mcp_manager.rs 439-441).
RelayBegin(x, d) ==
    /\ ~lock.held
    /\ lock.id = 0
    /\ nCalls' = nCalls + 1
    /\ lock' = RelayGuard(x, d, pending[x])
    /\ pending' = AfterRemove(pending, x)
    /\ UNCHANGED <<hpc, hid, chan, answer, notified, ret, fulfilledOk>>
    /\ UNCHANGED <<supVars, extVars>>

\* Mutant: an unknown id is answered Ok.
RelayResult_SilentOk(found, sendOk) ==
    IF found /\ ~sendOk THEN "send_failed" ELSE "ok"

\* The Result of respond_to_http_approval (mcp_manager.rs 446-463).
\* Mutant: the result of response_tx.send is ignored.
RelayResult_IgnoresSend(found, sendOk) == IF found THEN "ok" ELSE "not_found"

RelayResult(found, sendOk) ==
    IF ~found THEN "not_found"
    ELSE IF sendOk THEN "ok" ELSE "send_failed"

\* ... sends on the removed entry's sender, returns and drops the guard
\* (mcp_manager.rs 446-464).
RelayFinish ==
    /\ lock.id # 0
    /\ LET h == lock.entry
           res == RelayResult(h # 0, h # 0 /\ RxAlive(h)) IN
       /\ ret' = [id |-> lock.id, res |-> res]
       /\ chan' = IF h # 0 /\ RxAlive(h)
                  THEN [chan EXCEPT ![h] = SentChan(lock.decision)]
                  ELSE chan
       /\ fulfilledOk' = [fulfilledOk EXCEPT ![lock.id] = @ \/ res = "ok"]
    /\ lock' = FreeLock
    /\ UNCHANGED <<pending, hpc, hid, answer, notified, nCalls>>
    /\ UNCHANGED <<supVars, extVars>>

GwNext ==
    \/ \E h \in Handlers, x \in SharedIds : HandlerRegister(h, x)
    \/ \E h \in Handlers : HandlerNotify(h)
    \/ \E h \in Handlers : HandlerResume(h)
    \/ \E h \in Handlers : HandlerCancel(h)
    \/ \E x \in SharedIds, d \in Decisions :
          nCalls < MaxCalls /\ RelayBegin(x, d)
    \/ RelayFinish

\* ------------------------------------------------------------------ classifier calls
ClsInit ==
    /\ clsIn = <<>>
    /\ clsOut = <<>>

\* The content items an assistant message is made of here: text with leading
\* white space, whitespace-only text, a tool invocation, a tool result with
\* leading white space and a whitespace-only tool result.
ContentItems ==
    {TextItem(<<"H", "i">>), TextItem(<<" ", "y">>), TextItem(<<" ">>), ToolUseItem,
     ToolResultItem(<<" ", "o", "k">>), ToolResultItem(<<" ">>)}

AssistantLines ==
    {[json |-> TRUE, type |-> "assistant", raw |-> <<"{", "a", "}">>, items |-> its] :
        its \in UNION {[1..n -> ContentItems] : n \in 0..MaxItems}}

\* Messages of the kinds the classifier suppresses, a message of a kind it
\* does not know, and the object {} that has no "type" at all.
SystemLine ==
    [json |-> TRUE, type |-> "system", raw |-> <<"{", "s", "}">>, items |-> <<>>]
UserLine ==
    [json |-> TRUE, type |-> "user", raw |-> <<"{", "u", "}">>, items |-> <<>>]
UnknownLine ==
    [json |-> TRUE, type |-> "unknown_type", raw |-> <<"{", "?", "}">>, items |-> <<>>]
EmptyObjectLine ==
    [json |-> TRUE, type |-> "", raw |-> <<"{", "}">>, items |-> <<>>]
SuppressedLines == {SystemLine, UserLine, UnknownLine, EmptyObjectLine}

ClassifyInputs == StdoutLines \cup AssistantLines \cup SuppressedLines

\* A caller hands a line to parse_claude_json_line.
ClassifyInput(line) ==
    /\ clsIn = <<>>
    /\ clsIn' = <<line>>
    /\ UNCHANGED clsOut
    /\ UNCHANGED <<supVars, gwVars, lockVars, relayVars, startVars>>

\* parse_claude_json_line returns.
ClassifyLine ==
    /\ clsIn # <<>>
    /\ clsOut = <<>>
    /\ clsOut' = <<ParseClaudeJsonLine(clsIn[1])>>
    /\ UNCHANGED clsIn
    /\ UNCHANGED <<supVars, gwVars, lockVars, relayVars, startVars>>

ClassifyNext ==
    \/ \E line \in ClassifyInputs : ClassifyInput(line)
    \/ ClassifyLine

\* ------------------------------------------------------------------ Stop, step by step
NoStopCall == [pc |-> "idle", id |-> "", found |-> FALSE, held |-> {}]

LockInit == stopCall = NoStopCall

\* state.running_processes.lock() and running_processes.remove(&process_id)
\* (lib.rs 492-493); the guard lives to the end of the function.
StopLockHandles(id) ==
    /\ stopCall.pc = "idle"
    /\ stopCall' = [pc |-> "removed", id |-> id, found |-> id \in running_processes,
                    held |-> {"running_processes"}]
    /\ running_processes' = running_processes \ {id}
    /\ UNCHANGED <<processes, child, os, out, errs, sup, rdOut, outPos, rdErr,
                   errPos, waitPc, waitStatus, completion_sent, events>>
    /\ UNCHANGED callVars
    /\ UNCHANGED <<gwVars, clsVars, relayVars, startVars>>

\* child_guard.take() and child.kill() on the handle that was removed
\* (lib.rs 494-498).
StopTakeAndKill ==
    /\ stopCall.pc = "removed"
    /\ stopCall' = [stopCall EXCEPT !.pc = "killed"]
    /\ IF stopCall.found /\ child[stopCall.id] = "some"
       THEN /\ child' = [child EXCEPT ![stopCall.id] = "none"]
            /\ os' = [os EXCEPT ![stopCall.id] = IF @ = "alive" THEN "killed" ELSE @]
       ELSE UNCHANGED <<child, os>>
    /\ UNCHANGED <<processes, running_processes, out, errs, sup, rdOut, outPos,
                   rdErr, errPos, waitPc, waitStatus, completion_sent, events>>
    /\ UNCHANGED callVars
    /\ UNCHANGED <<gwVars, clsVars, relayVars, startVars>>

\* state.processes.lock() and the status update (lib.rs 502-505).
StopMarkStopped ==
    /\ stopCall.pc = "killed"
    /\ stopCall' = [stopCall EXCEPT !.pc = "marked",
                                    !.held = @ \cup {"processes"}]
    /\ processes' = AfterStop(processes, stopCall.id)
    /\ UNCHANGED <<running_processes, child, os, out, errs, sup, rdOut, outPos,
                   rdErr, errPos, waitPc, waitStatus, completion_sent, events>>
    /\ UNCHANGED callVars
    /\ UNCHANGED <<gwVars, clsVars, relayVars, startVars>>

\* Mutant: Stop returns without letting go of its guards.
StopReturn_KeepsGuards ==
    /\ stopCall.pc = "marked"
    /\ stopCall' = [NoStopCall EXCEPT !.held = stopCall.held]
    /\ lastStop' = [ret |-> "Ok", noop |-> ~stopCall.found]
    /\ UNCHANGED <<processes, running_processes, child, os, out, errs, sup, rdOut,
                   outPos, rdErr, errPos, waitPc, waitStatus, completion_sent,
                   events, startResult>>
    /\ UNCHANGED <<gwVars, clsVars, relayVars, startVars>>

\* Ok(()) (lib.rs 507): both guards go out of scope.
StopReturn ==
    /\ stopCall.pc = "marked"
    /\ stopCall' = NoStopCall
    /\ lastStop' = [ret |-> "Ok", noop |-> ~stopCall.found]
    /\ UNCHANGED <<processes, running_processes, child, os, out, errs, sup, rdOut,
                   outPos, rdErr, errPos, waitPc, waitStatus, completion_sent,
                   events, startResult>>
    /\ UNCHANGED <<gwVars, clsVars, relayVars, startVars>>

\* start_claude_process takes the running_processes lock for its insert
\* (lib.rs 322-327), so it waits while a Stop holds it.
StartWhenUnlocked(p) ==
    /\ "running_processes" \notin stopCall.held
    /\ StartClaudeProcess(p)

\* Processes that are started and stopped step by step, their readers, and
\* the approval gateway with one relay call for request id 1.
LockNext ==
    \/ \E p \in ProcIds : StartWhenUnlocked(p)
    \/ \E p \in ProcIds : SupervisorTake(p)
    \/ \E p \in ProcIds : ProcWriteStdout(p, PlainLine)
    \/ \E p \in ProcIds : StdoutRead(p)
    \/ \E id \in StopIds : StopLockHandles(id)
    \/ StopTakeAndKill
    \/ StopMarkStopped
    \/ StopReturn
    \/ \E h \in Handlers : HandlerRegister(h, 1)
    \/ \E h \in Handlers : HandlerNotify(h)
    \/ \E d \in Decisions : d.behavior = "Deny" /\ nCalls < 1 /\ RelayBegin(1, d)
    \/ RelayFinish

\* ------------------------------------------------------------------ the relay's wrapper
\* Request ids agents send to the gateway, and ids request_approval hands out
\* for the legacy table (fresh UUIDs, mcp_manager.rs 395).
HttpIds == {1}
LegacyIds == {2}

RelayInit ==
    /\ pending_approvals = {}
    /\ respondRet = [id |-> 0, res |-> "none"]
    /\ nResponded = 0
    /\ requestRet = 0

\* Mutant: the request is filed under the id of an entry already there.
AfterRequest_ReusesId(table, x) == IF table = {} THEN {x} ELSE table

\* pending.insert(approval_id, request) (mcp_manager.rs 398).
AfterRequest(table, x) == table \cup {x}

\* request_approval: a polling caller files a request in the legacy table
\* under a fresh id and gets the id back.
RequestApproval(x) ==
    /\ x \notin pending_approvals
    /\ pending_approvals' = AfterRequest(pending_approvals, x)
    /\ requestRet' = x
    /\ UNCHANGED <<respondRet, nResponded>>
    /\ UNCHANGED <<supVars, gwVars, clsVars, lockVars, startVars>>

\* Mutant: the wrapper hands on what respond_to_http_approval returned.
RespondResult_PassThrough(httpRes, inLegacy) == httpRes

\* What respond_to_approval returns, given what respond_to_http_approval
\* returned and whether the legacy table has the id (mcp_manager.rs 411-429).
RespondResult(httpRes, inLegacy) ==
    IF httpRes = "ok" THEN "ok"
    ELSE IF inLegacy THEN "ok" ELSE "not_found"

\* The legacy table after respond_to_approval (pending.remove, run only when
\* respond_to_http_approval failed).
AfterRespond(table, x, httpRes) ==
    IF httpRes = "ok" THEN table ELSE table \ {x}

\* respond_to_approval after its call of respond_to_http_approval has
\* returned: the early return or the legacy fallback.
RespondReturn ==
    /\ lock.id = 0
    /\ nResponded < nCalls
    /\ nResponded' = nCalls
    /\ respondRet' = [id |-> ret.id,
                      res |-> RespondResult(ret.res, ret.id \in pending_approvals)]
    /\ pending_approvals' = AfterRespond(pending_approvals, ret.id, ret.res)
    /\ UNCHANGED requestRet
    /\ UNCHANGED <<supVars, gwVars, clsVars, lockVars, startVars>>

\* The gateway with respond_to_approval called for ids of both tables, one
\* call at a time.
RelayNext ==
    \/ \E h \in Handlers, x \in HttpIds : HandlerRegister(h, x)
    \/ \E h \in Handlers : HandlerNotify(h)
    \/ \E h \in Handlers : HandlerResume(h)
    \/ \E h \in Handlers : HandlerCancel(h)
    \/ \E x \in LegacyIds : RequestApproval(x)
    \/ \E x \in HttpIds \cup LegacyIds, d \in Decisions :
          nCalls < MaxCalls /\ nResponded = nCalls /\ RelayBegin(x, d)
    \/ RelayFinish
    \/ RespondReturn

\* The polling table on its own, as the tests use it: requests are filed and
\* answered through respond_to_approval, and no agent calls the gateway.
MaxPollCalls == 3

PollNext ==
    \/ \E x \in ReqIds : RequestApproval(x)
    \/ \E x \in ReqIds, d \in Decisions :
          nCalls < MaxPollCalls /\ nResponded = nCalls /\ RelayBegin(x, d)
    \/ RelayFinish
    \/ RespondReturn

\* ------------------------------------------------------------------ Start and list calls
\* The record start_claude_process creates first (lib.rs 237-245) and none.
NewRecord == [status |-> "starting", pid |-> None]
NoRecord == [status |-> "", pid |-> None]
NoStartCall == [pc |-> "idle", id |-> "", rec |-> NoRecord]

\* child.id() of the spawned process.
ChildPid == 4242

StartInit ==
    /\ startCall = NoStartCall
    /\ storedPid = [p \in ProcIds |-> None]
    /\ startRet = NoRecord
    /\ listRet = {}

\* let process_id = Uuid::new_v4() and the local record (lib.rs 234-245).
StartCreate(p) ==
    /\ startCall.pc = "idle"
    /\ processes[p] = "absent"
    /\ os[p] = "unborn"
    /\ startCall' = [pc |-> "created", id |-> p, rec |-> NewRecord]
    /\ UNCHANGED <<storedPid, startRet, listRet>>
    /\ UNCHANGED <<supVars, gwVars, clsVars, lockVars, relayVars>>

\* Mutant: the record is left as it was created.
AfterSpawn_StaysStarting(rec, pid) == rec

\* claude_process.pid = Some(child.id()); status = "running" (lib.rs 315-316).
AfterSpawn(rec, pid) == [rec EXCEPT !.pid = Some(pid), !.status = "running"]

\* cmd.spawn() succeeds (lib.rs 305-316).
StartSpawn ==
    /\ startCall.pc = "created"
    /\ startCall' = [startCall EXCEPT !.pc = "spawned",
                                      !.rec = AfterSpawn(@, ChildPid)]
    /\ os' = [os EXCEPT ![startCall.id] = "alive"]
    /\ UNCHANGED <<processes, running_processes, child, out, errs, sup, rdOut,
                   outPos, rdErr, errPos, waitPc, waitStatus, completion_sent,
                   events>>
    /\ UNCHANGED callVars
    /\ UNCHANGED <<storedPid, startRet, listRet>>
    /\ UNCHANGED <<gwVars, clsVars, lockVars, relayVars>>

\* cmd.spawn() fails and the call returns the error (lib.rs 313).
StartSpawnFails ==
    /\ startCall.pc = "created"
    /\ startCall' = NoStartCall
    /\ os' = [os EXCEPT ![startCall.id] = "nospawn"]
    /\ processes' = AfterSpawnError(processes, startCall.id)
    /\ startResult' = [startResult EXCEPT ![startCall.id] = "Err"]
    /\ UNCHANGED <<running_processes, child, out, errs, sup, rdOut, outPos, rdErr,
                   errPos, waitPc, waitStatus, completion_sent, events, lastStop>>
    /\ UNCHANGED <<storedPid, startRet, listRet>>
    /\ UNCHANGED <<gwVars, clsVars, lockVars, relayVars>>

\* state.running_processes.lock().unwrap().insert(..) (lib.rs 321-327): the
\* guard is a temporary of the statement.
StartInsertHandle ==
    /\ startCall.pc = "spawned"
    /\ "running_processes" \notin stopCall.held
    /\ startCall' = [startCall EXCEPT !.pc = "handle"]
    /\ child' = [child EXCEPT ![startCall.id] = "some"]
    /\ running_processes' = running_processes \cup {startCall.id}
    /\ UNCHANGED <<processes, os, out, errs, sup, rdOut, outPos, rdErr, errPos,
                   waitPc, waitStatus, completion_sent, events>>
    /\ UNCHANGED callVars
    /\ UNCHANGED <<storedPid, startRet, listRet>>
    /\ UNCHANGED <<gwVars, clsVars, lockVars, relayVars>>

\* state.processes.lock().unwrap().insert(.., claude_process.clone())
\* (lib.rs 329-334).
StartInsertRecord ==
    /\ startCall.pc = "handle"
    /\ "processes" \notin stopCall.held
    /\ startCall' = [startCall EXCEPT !.pc = "record"]
    /\ processes' = [processes EXCEPT ![startCall.id] = startCall.rec.status]
    /\ storedPid' = [storedPid EXCEPT ![startCall.id] = startCall.rec.pid]
    /\ UNCHANGED <<running_processes, child, os, out, errs, sup, rdOut, outPos,
                   rdErr, errPos, waitPc, waitStatus, completion_sent, events>>
    /\ UNCHANGED callVars
    /\ UNCHANGED <<startRet, listRet>>
    /\ UNCHANGED <<gwVars, clsVars, lockVars, relayVars>>

\* thread::spawn of the supervisor thread and Ok(claude_process)
\* (lib.rs 343, 469).
StartReturn ==
    /\ startCall.pc = "record"
    /\ startCall' = NoStartCall
    /\ sup' = [sup EXCEPT ![startCall.id] = "spawned"]
    /\ startResult' = [startResult EXCEPT ![startCall.id] = "Ok"]
    /\ startRet' = startCall.rec
    /\ UNCHANGED <<processes, running_processes, child, os, out, errs, rdOut,
                   outPos, rdErr, errPos, waitPc, waitStatus, completion_sent,
                   events, lastStop>>
    /\ UNCHANGED <<storedPid, listRet>>
    /\ UNCHANGED <<gwVars, clsVars, lockVars, relayVars>>

\* list_processes: the records of the table, read under its lock
\* (lib.rs 511-514).
ListProcesses ==
    /\ "processes" \notin stopCall.held
    /\ listRet' = {[status |-> processes[p], pid |-> storedPid[p]] :
                      p \in {q \in ProcIds : processes[q] # "absent"}}
    /\ UNCHANGED <<startCall, storedPid, startRet>>
    /\ UNCHANGED <<supVars, gwVars, clsVars, lockVars, relayVars>>

\* The steps a start call and a stop call in progress take next.
StartStep ==
    StartSpawn \/ StartSpawnFails \/ StartInsertHandle \/ StartInsertRecord \/ StartReturn
StopStep == StopTakeAndKill \/ StopMarkStopped \/ StopReturn

\* Spawn, Stop and list calls running side by side with the supervisor thread
\* and the child.
CallNext ==
    \/ \E p \in ProcIds : StartCreate(p)
    \/ StartSpawn
    \/ StartSpawnFails
    \/ StartInsertHandle
    \/ StartInsertRecord
    \/ StartReturn
    \/ ListProcesses
    \/ \E id \in StopIds : StopLockHandles(id)
    \/ StopTakeAndKill
    \/ StopMarkStopped
    \/ StopReturn
    \/ \E p \in ProcIds : SupervisorTake(p)
    \/ \E p \in ProcIds, status \in {"exit0", "exit1"} : ProcExit(p, status)
    \/ \E p \in ProcIds : WaitReturn(p)

ExtInit == ClsInit /\ LockInit /\ RelayInit /\ StartInit

Init == SupInit /\ GwInit /\ ExtInit

\* A process whose streams deliver lines and read errors: the items of stdout
\* are plain lines or errors, and so are those of stderr.
ReadErrNext ==
    \/ \E p \in ProcIds : StartClaudeProcess(p)
    \/ \E p \in ProcIds : SupervisorTake(p)
    \/ \E p \in ProcIds, line \in {PlainLine, StdoutIoError} : ProcWriteStdout(p, line)
    \/ \E p \in ProcIds, line \in {PlainLine.raw, StderrIoError} : ProcWriteStderr(p, line)
    \/ \E p \in ProcIds, status \in {"exit0", "exit1"} : ProcExit(p, status)
    \/ \E p \in ProcIds : StdoutRead(p)
    \/ \E p \in ProcIds : StdoutEof(p)
    \/ \E p \in ProcIds : StderrRead(p)
    \/ \E p \in ProcIds : StderrEof(p)
    \/ \E p \in ProcIds : WaitReturn(p)
    \/ \E p \in ProcIds : WaitCheck(p)
    \/ \E p \in ProcIds : WaitFallback(p)

ReadErrSpec == Init /\ [][ReadErrNext]_vars

\* The classifier applied to one line.
ClassifySpec == Init /\ [][ClassifyNext]_vars

\* The decision relay's wrapper around the gateway.
RelaySpec == Init /\ [][RelayNext]_vars

\* The command calls of the supervisor, step by step.
CallSpec == Init /\ [][CallNext]_vars

\* The legacy polling table.
PollSpec == Init /\ [][PollNext]_vars

\* Stop taken step by step next to the gateway.
LockSpec == Init /\ [][LockNext]_vars

Next == SupNext

Spec == Init /\ [][Next]_vars

\* The approval gateway on its own.
GwSpec == Init /\ [][GwNext]_vars

\* The gateway with its handler tasks scheduled fairly: a handler that can
\* emit its notification or resume from response_rx eventually does so.
FairGwSpec ==
    /\ Init
    /\ [][GwNext]_vars
    /\ \A h \in Handlers : WF_vars(HandlerNotify(h)) /\ WF_vars(HandlerResume(h))

\* Register/Fulfill pairs on distinct request ids: handler h carries request
\* id h, callers keep waiting, and one respond_to_http_approval call is made
\* for each id once that id is in the table.
PairHandlers == Handlers

PairNext ==
    \/ \E h \in PairHandlers : HandlerRegister(h, h)
    \/ \E h \in PairHandlers : HandlerNotify(h)
    \/ \E h \in PairHandlers : HandlerResume(h)
    \/ \E x \in PairHandlers, d \in Decisions : pending[x] # 0 /\ RelayBegin(x, d)
    \/ RelayFinish

PairSpec == Init /\ [][PairNext]_vars

\* The agent process whose tool calls a handler's request comes from: the child
\* is given the gateway's address in APPROVAL_ENDPOINT (lib.rs 308).
Requester(h) == CHOOSE p \in ProcIds : TRUE

\* A running agent process asks for approval of a tool call.
AgentRequest(h, x) ==
    /\ os[Requester(h)] = "alive"
    /\ HandlerRegister(h, x)

\* The requester of a suspended handler is dead and its connection closes.
AgentGone(h) ==
    /\ os[Requester(h)] \in {"exit0", "exit1", "killed"}
    /\ HandlerCancel(h)

\* An agent process that is started, asks for approvals and is stopped, while
\* nobody relays a decision.
StopNext ==
    \/ \E p \in ProcIds : StartClaudeProcess(p)
    \/ \E p \in ProcIds : SupervisorTake(p)
    \/ \E p \in ProcIds, status \in {"exit0", "exit1"} : ProcExit(p, status)
    \/ \E p \in ProcIds : StopClaudeProcess(p)
    \/ \E h \in Handlers, x \in SharedIds : AgentRequest(h, x)
    \/ \E h \in Handlers : HandlerNotify(h)
    \/ \E h \in Handlers : HandlerResume(h)
    \/ \E h \in Handlers : AgentGone(h)

\* ... with the supervisor thread and the handler tasks scheduled fairly, and
\* the connection of a dead requester closing in the end.
FairStopSpec ==
    /\ Init
    /\ [][StopNext]_vars
    /\ \A p \in ProcIds : WF_vars(SupervisorTake(p))
    /\ \A h \in Handlers :
          WF_vars(HandlerNotify(h)) /\ WF_vars(HandlerResume(h)) /\ WF_vars(AgentGone(h))

\* ------------------------------------------------------------------ supervisor claims
Completions(p) ==
    Cardinality({i \in 1..Len(events[p]) : events[p][i].kind = "claude-completed"})
ErrorOutputs(p) ==
    Cardinality({i \in 1..Len(events[p]) :
                    events[p][i].kind = "claude-output" /\ events[p][i].is_error})
WroteResult(p) == \E i \in 1..Len(out[p]) : IsResultLine(out[p][i])
\* The two readers and the wait loop of p have all run to their end.
UnitsFinished(p) ==
    rdOut[p] = "eof" /\ rdErr[p] = "eof" /\ waitPc[p] = "done"

\* C1: at most one completion event is ever emitted for a process id.
C1_AtMostOneCompletion == \A p \in ProcIds : Completions(p) <= 1

\* C2: a process that wrote the terminal line and exited 0 has, once its readers
\* and wait loop are through, exactly one completion event, with success = true.
C2_ExactlyOnceSuccess ==
    \A p \in ProcIds :
        (UnitsFinished(p) /\ WroteResult(p) /\ waitStatus[p] = "exit0")
        => /\ Completions(p) = 1
           /\ \A i \in 1..Len(events[p]) :
                events[p][i].kind = "claude-completed" => events[p][i].success

\* C3: a process that wrote no terminal line and nothing on stderr and exited
\* non-zero has, once its readers and wait loop are through, exactly one
\* is_error output event and exactly one completion event, with success = false.
C3_FallbackCompletion ==
    \A p \in ProcIds :
        (UnitsFinished(p) /\ ~WroteResult(p) /\ errs[p] = <<>> /\ os[p] = "exit1")
        => /\ ErrorOutputs(p) = 1
           /\ Completions(p) = 1
           /\ \A i \in 1..Len(events[p]) :
                events[p][i].kind = "claude-completed" => ~events[p][i].success

C3_Witness ==
    \E p \in ProcIds :
        /\ UnitsFinished(p) /\ ~WroteResult(p) /\ errs[p] = <<>> /\ os[p] = "exit1"
        /\ waitStatus[p] = "exit1"
        /\ Len(out[p]) > 0
        /\ ErrorOutputs(p) = 1 /\ Completions(p) = 1

\* C11: once stop_claude_process has returned for a process, every approval
\* that process is awaiting is abandoned in the end: its handler's await has
\* failed (or the handler is gone) and its entry is no longer in the pending
\* table, although no decision was relayed.
C11_StopAbandonsApprovals ==
    \A h \in Handlers :
        (/\ processes[Requester(h)] = "stopped"
         /\ hpc[h] = "awaiting"
         /\ pending[hid[h]] = h)
        ~> (hpc[h] \in {"failed", "cancelled"} /\ pending[hid[h]] # h)

\* C12: once stop_claude_process has returned for a tracked process, no further
\* output event and no further completion event is emitted for its id.
C12_NoEventsAfterStop ==
    [][\A p \in ProcIds : processes[p] = "stopped" => events'[p] = events[p]]_vars

\* C13: a stop_claude_process call that finds the OS process of its id alive
\* issues a kill to it, whoever holds the process handle at that moment.
C13_StopKillsLiveProcess ==
    [][\A p \in ProcIds :
          (os[p] = "alive" /\ StopClaudeProcess(p)) => os'[p] = "killed"]_vars

\* C14: after stop_claude_process has returned for an id that had a record, no
\* record with that id is left in the process table.
C14_StopRemovesRecord ==
    [][\A p \in ProcIds :
          (processes[p] # "absent" /\ StopClaudeProcess(p))
          => processes'[p] = "absent"]_vars

\* C15: stop_claude_process on an id that is unknown or already stopped returns
\* Ok, kills nothing, emits nothing and leaves the process table, the handle
\* table and the process handles as they were: a second stop changes nothing.
C15_StopIdempotent ==
    [][\A id \in StopIds :
          (UnknownOrStopped(id) /\ StopClaudeProcess(id))
          => /\ lastStop'.ret = "Ok"
             /\ processes' = processes
             /\ running_processes' = running_processes
             /\ child' = child /\ os' = os
             /\ events' = events]_vars

C15_Witness ==
    \E p \in ProcIds :
        /\ lastStop = [ret |-> "Ok", noop |-> TRUE]
        /\ processes[p] = "stopped"
        /\ os[p] = "alive"
        /\ events[p] # <<>>

\* C18: a failed spawn returns Err to the caller of start_claude_process and
\* leaves no trace, then or later: no record, no handle, no supervisor thread,
\* no reader or wait loop, no event, and no OS process is ever spawned for it.
C18_SpawnFailureLeavesNoTrace ==
    \A p \in ProcIds :
        os[p] = "nospawn"
        => /\ startResult[p] = "Err"
           /\ processes[p] = "absent"
           /\ p \notin running_processes /\ child[p] = "none"
           /\ sup[p] = "idle"
           /\ rdOut[p] = "off" /\ rdErr[p] = "off" /\ waitPc[p] = "off"
           /\ events[p] = <<>>

C18_Witness ==
    \E p \in ProcIds :
        /\ os[p] = "nospawn"
        /\ startResult[p] = "Err"
        /\ lastStop.noop
        /\ processes[p] = "absent"

\* The line is a message of the stream protocol: JSON with a string "type".
IsProtocolMessage(line) == line.json /\ line.type # ""

C20_StderrNonEmptyLines ==
    [][\A p \in ProcIds :
          errPos'[p] = errPos[p] + 1
          => LET line == errs[p][errPos[p] + 1] IN
             events'[p] = IF line # <<>>
                          THEN Append(events[p], OutputEvent(line, TRUE))
                          ELSE events[p]]_vars

\* The output events of a sequence of events that a stdout reader emitted, and
\* those that a stderr reader emitted (the wait loop's two error lines are not
\* lines of a stream).
IsStdoutEvent(e) == e.kind = "claude-output" /\ ~e.is_error
IsStderrEvent(e) ==
    /\ e.kind = "claude-output" /\ e.is_error
    /\ e.content \notin {ExitedWithCode, ProcessError}

\* What the stdout reader emits for the first n lines of a stream, in order.
RECURSIVE StdoutExpected(_, _)
StdoutExpected(lines, n) ==
    IF n = 0 THEN <<>>
    ELSE StdoutExpected(lines, n - 1) \o StdoutLineEvents(lines[n])

RECURSIVE StderrExpected(_, _)
StderrExpected(lines, n) ==
    IF n = 0 THEN <<>>
    ELSE StderrExpected(lines, n - 1) \o StderrLineEvents(lines[n])

\* C21: for each process, the output events of its stdout are, in order, those
\* of the stdout lines consumed so far, and likewise for its stderr: events of
\* one stream are never reordered.
C21_StreamOrderPreserved ==
    \A p \in ProcIds :
        /\ SelectSeq(events[p], IsStdoutEvent) = StdoutExpected(out[p], outPos[p])
        /\ SelectSeq(events[p], IsStderrEvent) = StderrExpected(errs[p], errPos[p])

C21_Witness ==
    \E p \in ProcIds :
        /\ outPos[p] = 2
        /\ Len(SelectSeq(events[p], IsStdoutEvent)) = 2
        /\ events[p][1] # events[p][2]

\* The wait loop's report of a non-success exit.
IsExitCodeEvent(e) == e = OutputEvent(ExitedWithCode, TRUE)
ExitCodeEvents(p) == Cardinality({i \in 1..Len(events[p]) : IsExitCodeEvent(events[p][i])})

\* C22: once the wait loop has seen a non-success exit status there is exactly
\* one is_error output event for the exit code (and none after a successful
\* exit), also when the stdout reader has emitted a completion already; the
\* wait loop's own completion, if any, comes after it.
C22_ExitCodeEventOnce ==
    \A p \in ProcIds :
        /\ waitStatus[p] = "exit1" => ExitCodeEvents(p) = 1
        /\ waitStatus[p] \in {"none", "exit0"} => ExitCodeEvents(p) = 0
        /\ \A i, j \in 1..Len(events[p]) :
              (IsExitCodeEvent(events[p][i]) /\ events[p][j] = CompletedEvent(FALSE))
              => i < j

C22_Witness ==
    \E p \in ProcIds :
        /\ waitStatus[p] = "exit1"
        /\ Len(events[p]) = 2
        /\ events[p][1] = CompletedEvent(TRUE)
        /\ IsExitCodeEvent(events[p][2])
        /\ waitPc[p] = "done"

\* C23: after a wait error the wait loop emits its is_error output event and
\* then a completion with success = false, the completion only if none was
\* emitted before for the process id.
C23_WaitErrorFallbackOnce ==
    [][\A p \in ProcIds :
          /\ (waitPc[p] = "wait" /\ waitPc'[p] = "errEmit")
               => events'[p] = Append(events[p], OutputEvent(ProcessError, TRUE))
          /\ (waitPc[p] = "errEmit" /\ waitPc'[p] = "done")
               => events'[p] = IF Completions(p) = 0
                                THEN Append(events[p], CompletedEvent(FALSE))
                                ELSE events[p]]_vars

\* A reader has come across a read error among the items it consumed.
StdoutHitError(p) == \E i \in 1..outPos[p] : IsStdoutReadError(out[p][i])
StderrHitError(p) == \E i \in 1..errPos[p] : IsStderrReadError(errs[p][i])
OfStdout(evs) == SelectSeq(evs, IsStdoutEvent)
OfStderr(evs) == SelectSeq(evs, IsStderrEvent)

\* C24: a reader that came across a read error is over: it emits no further
\* event for its stream; the step that consumes the error leaves the process
\* record, the live table, the other reader and the wait loop as they are.
C24_ReadErrorEndsReader ==
    [][\A p \in ProcIds :
          /\ StdoutHitError(p) => OfStdout(events'[p]) = OfStdout(events[p])
          /\ StderrHitError(p) => OfStderr(events'[p]) = OfStderr(events[p])
          /\ ((StdoutHitError(p)' /\ ~StdoutHitError(p))
                  \/ (StderrHitError(p)' /\ ~StderrHitError(p)))
               => UNCHANGED <<processes, running_processes, waitPc, events>>]_vars

\* The stdout reader of p has consumed a terminal line before.
SeenResultLine(p) == \E i \in 1..outPos[p] : IsResultLine(out[p][i])

\* C33: when the stdout reader consumes a terminal line it emits no output
\* event for it, and it goes on to emit a completion only the first time; for
\* any other line it emits one is_error = false output event carrying the
\* classifier's text when the classifier returns text, and nothing otherwise.
C33_StdoutLoopPerLine ==
    [][\A p \in ProcIds :
          /\ outPos'[p] = outPos[p] + 1 =>
                LET line == out[p][outPos[p] + 1]
                    text == ParseClaudeJsonLine(line) IN
                IF line.json /\ line.type = "result"
                THEN /\ events'[p] = events[p]
                     /\ rdOut'[p] = "emit" => ~SeenResultLine(p)
                ELSE /\ rdOut'[p] = rdOut[p]
                     /\ text # None =>
                           events'[p] = Append(events[p], OutputEvent(text[1], FALSE))
                     /\ text = None => events'[p] = events[p]
          /\ (rdOut[p] = "emit" /\ rdOut'[p] # "emit") =>
                events'[p] = Append(events[p], CompletedEvent(TRUE))]_vars

C33_Witness ==
    \E p \in ProcIds :
        /\ out[p] = <<ResultLine, ResultLine>>
        /\ outPos[p] = 2
        /\ rdOut[p] = "read"
        /\ os[p] = "alive"
        /\ events[p] = <<CompletedEvent(TRUE)>>

\* ------------------------------------------------------------------ gateway claims
\* C4: once a respond_to_http_approval call has returned Ok with decision d for
\* the entry of a registered handler (the handler's channel then holds d, the
\* decision of that call), that handler eventually answers 200 with the
\* rendering of exactly d (or its caller has given up in the meantime).
C4_FulfillResumesHandler ==
    \A h \in Handlers :
        (chan[h].state = "sent" /\ RxAlive(h))
        ~> (\/ answer[h] = [status |-> "OK", body |-> Render(chan[h].value)]
            \/ hpc[h] = "cancelled")

C4_Witness ==
    \E h \in Handlers :
        /\ ret = [id |-> hid[h], res |-> "ok"]
        /\ chan[h].state = "sent"
        /\ chan[h].value.behavior = "Deny"
        /\ answer[h] = [status |-> "OK", body |-> Render(chan[h].value)]

\* C5: after a call for request id x has returned Ok, every later call for x
\* with no registration of x in between returns not-found and sends nothing.
C5_FulfilledAtMostOnce ==
    [][\A x \in ReqIds :
          (fulfilledOk[x] /\ lock.id = x /\ RelayFinish)
          => (ret'.res = "not_found" /\ chan' = chan)]_vars

C5_Witness ==
    \E x \in ReqIds :
        /\ fulfilledOk[x]
        /\ ret = [id |-> x, res |-> "not_found"]
        /\ \E h \in Handlers : hid[h] = x /\ chan[h].state = "sent"

\* C6: a call for a request id that has no entry returns not-found and leaves
\* the table and every decision slot as they were.
C6_UnknownIdNotFound ==
    [][/\ \A x \in ReqIds, d \in Decisions :
            (pending[x] = 0 /\ RelayBegin(x, d)) => pending' = pending
       /\ (lock.id # 0 /\ lock.entry = 0 /\ RelayFinish)
            => (ret'.res = "not_found" /\ pending' = pending /\ chan' = chan)]_vars

C6_Witness ==
    \E x, y \in ReqIds :
        /\ ret = [id |-> x, res |-> "not_found"]
        /\ ~fulfilledOk[x]
        /\ pending[x] = 0
        /\ pending[y] # 0 /\ chan[pending[y]].state = "empty"

\* An entry whose decision was delivered is still in the table, or an entry
\* was removed by a call in progress that has not delivered its decision yet.
HalfFulfilled ==
    \/ \E x \in ReqIds : pending[x] # 0 /\ chan[pending[x]].state = "sent"
    \/ lock.id # 0 /\ lock.entry # 0

\* C7: removal and delivery are one step under the table's lock: whenever the
\* lock is free, so that a Register, a Fulfill or a lookup can look at the
\* table, no entry is half fulfilled.
C7_AtomicRemoveDeliver == ~lock.held => ~HalfFulfilled

C7_Witness ==
    /\ lock.held
    /\ HalfFulfilled
    /\ \E h \in Handlers : hpc[h] = "start"

\* No step of the pair scenario is possible any more.
PairTerminated == ~ENABLED PairNext

\* C8: with handlers on distinct request ids and one call per registered id,
\* every call returns Ok, and when nothing is left to do every handler has
\* answered with a decision and the table is empty.
C8_PairsLoseNothing ==
    /\ ret.res \in {"none", "ok"}
    /\ PairTerminated
        => /\ \A h \in PairHandlers : hpc[h] = "answered" /\ answer[h].status = "OK"
           /\ \A x \in ReqIds : pending[x] = 0

C8_Witness ==
    /\ PairTerminated
    /\ \A h \in PairHandlers : hpc[h] = "answered"
    /\ nCalls = Cardinality(PairHandlers)
    /\ \A x \in ReqIds : pending[x] = 0

\* The two terminal outcomes of the approval that handler h registered.
Fulfilled(h) == answer[h].status = "OK"
Abandoned(h) ==
    \/ hpc[h] = "cancelled"
    \/ chan[h].state = "closed"
    \/ answer[h].status = "INTERNAL_SERVER_ERROR"

\* C9: a registered approval is never both Fulfilled (its awaiter received a
\* decision) and Abandoned (its awaiter failed or went away without one).
C9_FulfilledXorAbandoned ==
    \A h \in Handlers : ~(Fulfilled(h) /\ Abandoned(h))

C9_Witness ==
    \E h, g \in Handlers :
        /\ Fulfilled(h) /\ hpc[h] = "answered"
        /\ Abandoned(g) /\ hpc[g] = "failed"

\* C10: the table never holds an entry whose awaiter has given up.
C10_NoEntryWithoutAwaiter ==
    \A x \in ReqIds : pending[x] # 0 => hpc[pending[x]] # "cancelled"

\* C16: a handler suspended on response_rx leaves the suspension with an answer
\* only after a decision was sent on its channel (200) or the channel's sender
\* was dropped (500); while neither has happened it stays suspended, however
\* long, unless its caller gives up.
C16_NoTimeoutOnAwait ==
    [][\A h \in Handlers :
          hpc[h] = "awaiting"
          => /\ hpc'[h] = "answered" => chan[h].state = "sent"
             /\ hpc'[h] = "failed" => chan[h].state = "closed"
             /\ chan[h].state = "empty"
                  => (hpc'[h] \in {"awaiting", "cancelled"}
                      /\ answer'[h] = NoAnswer)]_vars

C16_Witness ==
    \E h, g \in Handlers :
        /\ hpc[h] = "awaiting" /\ chan[h].state = "empty" /\ pending[hid[h]] = h
        /\ hpc[g] = "answered"
        /\ nCalls = MaxCalls /\ lock = FreeLock
        /\ ret.res = "not_found"

\* The next handler to arrive: handlers are numbered in order of arrival.
NextToArrive(g) == hpc[g] = "start" /\ \A k \in Handlers : k < g => hpc[k] # "start"

\* C17: while a handler is suspended on its request id, the table's lock is
\* held by nobody but a respond_to_http_approval call in progress, which can
\* finish; with the lock free a new request can register on any id and a
\* decision can be relayed for any id; and every other handler can notify and
\* resume.
C17_SuspendedAwaitBlocksNobody ==
    (\E h \in Handlers : hpc[h] = "awaiting" /\ chan[h].state = "empty")
    => /\ lock.held => ENABLED RelayFinish
       /\ ~lock.held =>
            /\ \A g \in Handlers, y \in SharedIds :
                  NextToArrive(g) => ENABLED HandlerRegister(g, y)
            /\ \A y \in SharedIds, d \in Decisions : ENABLED RelayBegin(y, d)
       /\ \A g \in Handlers : hpc[g] = "registered" => ENABLED HandlerNotify(g)
       /\ \A g \in Handlers :
            (hpc[g] = "awaiting" /\ chan[g].state # "empty") => ENABLED HandlerResume(g)

C17_Witness ==
    \E h, g \in Handlers :
        /\ h < g
        /\ hpc[h] = "awaiting" /\ chan[h].state = "empty" /\ pending[hid[h]] = h
        /\ hid[g] # hid[h]
        /\ hpc[g] = "answered" /\ answer[g].status = "OK"

\* C26: the body a handler answers with carries the decision's behavior in
\* lower case ("allow" or "deny"), the decision's message or null, and the
\* decision's updated input or null.
C26_RenderedDecision ==
    \A h \in Handlers :
        answer[h].status = "OK" =>
            LET d == chan[h].value
                body == answer[h].body IN
            /\ d.behavior = "Allow" => body.behavior = "allow"
            /\ d.behavior = "Deny" => body.behavior = "deny"
            /\ body.message = IF d.message = None THEN JNull
                               ELSE JString(d.message[1])
            /\ body.updatedInput = IF d.updated_input = None THEN JNull
                                    ELSE JString(d.updated_input[1])

C26_Witness ==
    \E g, h \in Handlers :
        /\ answer[g].status = "OK" /\ answer[h].status = "OK"
        /\ chan[g].value.behavior = "Deny" /\ answer[g].body.message # JNull
        /\ chan[h].value.behavior = "Allow" /\ answer[h].body.updatedInput # JNull

\* C28: a handler whose sender was dropped without a decision never answers
\* with a decision, and unless its caller goes away first it answers with the
\* error status instead of staying suspended; the relay's not-found result is
\* a different outcome, reported to the relay's caller.
C28_TornDownAwaitFails ==
    /\ [](\A h \in Handlers :
            chan[h].state = "closed" =>
                answer[h] \in {NoAnswer,
                               [status |-> "INTERNAL_SERVER_ERROR", body |-> NoBody]})
    /\ \A h \in Handlers :
          (chan[h].state = "closed" /\ hpc[h] = "awaiting")
          ~> (\/ answer[h] = [status |-> "INTERNAL_SERVER_ERROR", body |-> NoBody]
              \/ hpc[h] = "cancelled")

C28_Witness ==
    \E h \in Handlers :
        /\ chan[h].state = "closed"
        /\ hpc[h] = "failed"
        /\ answer[h].status = "INTERNAL_SERVER_ERROR"
        /\ ret.res = "not_found"

\* ------------------------------------------------------------------ classifier claims
\* A line that parses as a structured message: a JSON object.
IsJsonObject(line) == line.json /\ line.raw # <<>> /\ Head(line.raw) = "{"

IsCollectedKind(item) == item.type \in {"text", "tool_result"}
IsCollected(item) == IsCollectedKind(item) /\ Trim(item.text) # <<>>
PieceVerbatim(item) ==
    IF item.type = "text" THEN item.text ELSE ToolResultPrefix \o item.text
PieceTrimmed(item) ==
    IF item.type = "text" THEN item.text ELSE ToolResultPrefix \o Trim(item.text)

C27_ShortCriticalSections ==
    [][/\ (stopCall.held # {} /\ stopCall' # stopCall)
            => (os' = os /\ events' = events /\ notified' = notified)
       /\ \A h \in Handlers :
             (hpc[h] = "registered" /\ hpc'[h] = "awaiting")
                => ~(lock.held /\ lock.id = 0)
       /\ (lock.id # 0 /\ lock'.id = 0)
            => (os' = os /\ events' = events /\ notified' = notified)]_vars

\* ------------------------------------------------------------------ relay claims
\* C25 as stated: respond_to_approval returns what Fulfill
\* (respond_to_http_approval) returned for the id, Ok or its error, and
\* changes nothing beyond what Fulfill changed.
C25_RelayPassThrough ==
    [][nResponded' # nResponded =>
          /\ respondRet' = [id |-> ret.id, res |-> ret.res]
          /\ pending_approvals' = pending_approvals
          /\ UNCHANGED <<supVars, gwVars>>]_vars

\* C25 amended: respond_to_approval returns Ok and changes nothing more when
\* Fulfill returned Ok; when Fulfill failed it turns to the legacy table: it
\* removes the id's entry there and returns Ok if there is one, and returns a
\* not-found error and changes nothing if there is none.
C25_RelayWithLegacyFallback ==
    [][nResponded' # nResponded =>
          /\ respondRet'.id = ret.id
          /\ ret.res = "ok" =>
                (respondRet'.res = "ok" /\ pending_approvals' = pending_approvals)
          /\ (ret.res # "ok" /\ ret.id \in pending_approvals) =>
                /\ respondRet'.res = "ok"
                /\ pending_approvals' = pending_approvals \ {ret.id}
          /\ (ret.res # "ok" /\ ret.id \notin pending_approvals) =>
                /\ respondRet'.res = "not_found"
                /\ pending_approvals' = pending_approvals
          /\ UNCHANGED <<supVars, gwVars>>]_vars

C25_Witness ==
    /\ nResponded = 2
    /\ respondRet = [id |-> 2, res |-> "ok"]
    /\ ret = [id |-> 2, res |-> "not_found"]
    /\ pending_approvals = {}
    /\ \E h \in Handlers : answer[h].status = "OK"

\* C31: parse_claude_json_line returns None for every line that parses as JSON
\* and whose kind is system, user, result or any kind other than assistant,
\* and for parsed JSON without a "type" (such as {}).
C31_OtherKindsSuppressed ==
    (clsIn # <<>> /\ clsOut # <<>>) =>
        ((clsIn[1].json /\ clsIn[1].type # "assistant") => clsOut[1] = None)

C31_Witness ==
    /\ clsIn \in {<<SystemLine>>, <<UserLine>>, <<ResultLine>>, <<UnknownLine>>,
                  <<EmptyObjectLine>>}
    /\ clsIn[1].type = "unknown_type"
    /\ clsOut = <<None>>

\* ------------------------------------------------------------------ polling table claims
\* C32: request_approval adds exactly one entry, under an id that was not in
\* the polling table, and returns that id; respond_to_approval for an id in
\* the table returns Ok and removes that entry and no other; for an id not in
\* it the table stays as it is. So the table holds the ids requested and not
\* yet answered.
C32_PollingTableExact ==
    [][/\ requestRet' # requestRet \/ pending_approvals' \ pending_approvals # {}
            => /\ requestRet' \notin pending_approvals
               /\ pending_approvals' = pending_approvals \cup {requestRet'}
       /\ nResponded' # nResponded
            => /\ respondRet'.id = ret.id
               /\ ret.id \in pending_approvals =>
                     /\ respondRet'.res = "ok"
                     /\ pending_approvals' = pending_approvals \ {ret.id}
               /\ ret.id \notin pending_approvals =>
                     pending_approvals' = pending_approvals]_vars

\* Two requests were filed and both were answered, the first one last.
C32_Witness ==
    /\ requestRet = 2
    /\ nResponded = 2
    /\ respondRet = [id |-> 1, res |-> "ok"]
    /\ pending_approvals = {}

\* ------------------------------------------------------------------ call claims
\* C34: the record a successful start inserts in the process table is its
\* local record, and that is the record it returns, with status running and
\* the pid set; no record with status starting is in the table or in what
\* list_processes returns.
C34_SpawnReturnsRunningRecord ==
    [][/\ (startCall.pc = "handle" /\ startCall'.pc = "record") =>
            /\ processes'[startCall.id] = startCall.rec.status
            /\ storedPid'[startCall.id] = startCall.rec.pid
       /\ (startCall.pc \in {"handle", "record"} /\ startCall'.pc # "idle") =>
            startCall'.rec = startCall.rec
       /\ (startCall.pc = "record" /\ startCall'.pc = "idle") =>
            /\ startRet' = startCall.rec
            /\ startRet'.status = "running"
            /\ startRet'.pid # None
       /\ \A p \in ProcIds : processes'[p] # "starting"
       /\ \A r \in listRet' : r.status # "starting"]_vars

C34_Witness ==
    /\ startRet = [status |-> "running", pid |-> Some(ChildPid)]
    /\ \E p \in ProcIds : processes[p] = "running" /\ storedPid[p] = startRet.pid
    /\ startRet \in listRet

\* C40: no deadlock among the calls. A stop call in progress can always take
\* its next step; a start call in progress can take its next step unless a
\* stop call in progress holds the lock it needs, and so can list_processes.
C40_CallsNeverDeadlock ==
    /\ stopCall.pc # "idle" => ENABLED StopStep
    /\ startCall.pc # "idle" => (ENABLED StartStep \/ stopCall.pc # "idle")
    /\ ENABLED ListProcesses \/ stopCall.pc # "idle"
    /\ \A p \in ProcIds : sup[p] = "spawned" => ENABLED SupervisorTake(p)

\* A start call waits for the process-table lock that a stop call holds
\* together with the handle-table lock.
C40_Witness ==
    /\ startCall.pc = "handle"
    /\ stopCall.pc = "marked"
    /\ stopCall.held = {"running_processes", "processes"}
    /\ ~ENABLED StartStep
    /\ ~ENABLED ListProcesses

\* ------------------------------------------------------------------ delivery claims
\* C35: a decision reaches a handler's channel only from a relay call that
\* carries the request id the handler registered, and it is the decision of
\* that call; what the handler answers with is the decision in its channel.
C35_NoCrossDelivery ==
    [][\A h \in Handlers :
          /\ (chan'[h].state = "sent" /\ chan[h].state # "sent") =>
                /\ lock.id = hid[h]
                /\ chan'[h].value = lock.decision
          /\ (answer'[h] # answer[h] /\ answer'[h].status = "OK") =>
                /\ chan[h].state = "sent"
                /\ answer'[h].body = Render(chan[h].value)]_vars

C35_Witness ==
    \E g, h \in Handlers :
        /\ hid[g] # hid[h]
        /\ answer[g].status = "OK" /\ answer[h].status = "OK"
        /\ chan[g].value # chan[h].value

\* C36: when a handler registers a request id that is pending, the table's
\* entry for the id becomes the new handler's and the earlier handler's
\* channel is closed; a closed channel never gets a decision and its handler
\* answers with the error status only; a relay call for the id takes the entry
\* the table holds then, the newer one.
C36_OverwriteAbandonsOlder ==
    [][/\ \A x \in ReqIds :
            (pending[x] # 0 /\ pending'[x] \notin {0, pending[x]}) =>
                /\ chan'[pending[x]].state = "closed"
                /\ chan'[pending'[x]].state = "empty"
                /\ hid'[pending'[x]] = x
       /\ \A g \in Handlers :
            chan[g].state = "closed" =>
                /\ chan'[g] = chan[g]
                /\ answer'[g] \in {NoAnswer,
                                  [status |-> "INTERNAL_SERVER_ERROR", body |-> NoBody]}
       /\ (lock.id = 0 /\ lock'.id # 0) => lock'.entry = pending[lock'.id]
       /\ \A g \in Handlers :
            (chan'[g].state = "sent" /\ chan[g].state # "sent") => lock.entry = g]_vars

\* Two handlers registered the same id; the earlier one failed and the later
\* one got the decision.
C36_Witness ==
    \E g, h \in Handlers :
        /\ g < h /\ hid[g] = hid[h]
        /\ hpc[g] = "failed" /\ answer[g].status = "INTERNAL_SERVER_ERROR"
        /\ hpc[h] = "answered" /\ answer[h].status = "OK"

\* C37: the notification for a request id is emitted by a handler that has
\* stored its entry for the id; as long as no relay call has been made, the
\* entry for a notified id is in the table, so the relay call that reacts to
\* the notification finds it.
C37_NotifyAfterInsert ==
    [][\A x \in ReqIds :
          (x \in notified' /\ x \notin notified) =>
              /\ \E h \in Handlers :
                    hid[h] = x /\ hpc[h] = "registered" /\ hpc'[h] = "awaiting"
              /\ nCalls = 0 => pending[x] # 0]_vars

\* The first relay call, made for a notified id, delivered its decision.
C37_Witness ==
    /\ nCalls = 1
    /\ ret.res = "ok"
    /\ ret.id \in notified
    /\ \E h \in Handlers : hid[h] = ret.id /\ chan[h].state = "sent"

\* C38: a relay call that finds an entry whose handler is gone removes the
\* entry, delivers nothing and returns an error, and respond_to_approval
\* returns an error for it as well; a call returns Ok only when it put the
\* decision in the channel of a handler that is still there.
C38_GoneAwaiterIsAnError ==
    [][/\ (lock.id # 0 /\ lock'.id = 0 /\ lock.entry # 0
             /\ hpc[lock.entry] = "cancelled") =>
                /\ ret' = [id |-> lock.id, res |-> "send_failed"]
                /\ pending'[lock.id] # lock.entry
                /\ chan' = chan
       /\ (lock.id # 0 /\ lock'.id = 0 /\ ret'.res = "ok") =>
                /\ lock.entry # 0 /\ RxAlive(lock.entry)
                /\ chan'[lock.entry] = SentChan(lock.decision)
       /\ (nResponded' # nResponded /\ ret.res = "send_failed") =>
                respondRet'.res \notin {"ok", "none"}]_vars

C38_Witness ==
    /\ ret = [id |-> 1, res |-> "send_failed"]
    /\ respondRet = [id |-> 1, res |-> "not_found"]
    /\ pending[1] = 0
    /\ \E h \in Handlers : hid[h] = 1 /\ hpc[h] = "cancelled" /\ chan[h].state = "empty"

\* A reader or wait-loop step of process p: one of its positions moves.
SupervisorThreadStep(p) ==
    \/ sup[p] # "idle" /\ sup'[p] # sup[p]
    \/ rdOut'[p] # rdOut[p] \/ outPos'[p] # outPos[p]
    \/ rdErr'[p] # rdErr[p] \/ errPos'[p] # errPos[p]
    \/ waitPc'[p] # waitPc[p] \/ waitStatus'[p] # waitStatus[p]
    \/ events'[p] # events[p]

\* The process ended by itself and its wait loop has finished.
ExitedOnItsOwn(p) ==
    /\ os[p] \in {"exit0", "exit1"}
    /\ waitPc[p] = "done"

\* C39: only Stop changes a stored process record. A step that changes the
\* record of an id that has one, or removes its handle-table entry, is a Stop of
\* that id (the record becomes "stopped", the handle is gone); the reader and
\* wait loops of a process leave both tables as they are, so a process that
\* exited on its own, with success, an error code or a wait error, keeps status
\* "running" and its handle until then; a "stopped" record stays "stopped".
C39_OnlyStopChangesRecord ==
    [][\A p \in ProcIds :
          /\ (processes[p] # "absent" /\ processes'[p] # processes[p]) =>
                 /\ processes' = AfterStop(processes, p)
                 /\ p \notin running_processes'
          /\ (p \in running_processes /\ p \notin running_processes') =>
                 processes' = AfterStop(processes, p)
          /\ SupervisorThreadStep(p) =>
                 /\ processes' = processes
                 /\ running_processes' = running_processes
          /\ ((ExitedOnItsOwn(p) \/ waitStatus[p] = "err")
                  /\ processes[p] = "running" /\ processes'[p] # "stopped") =>
                 /\ processes'[p] = "running"
                 /\ (p \in running_processes') = (p \in running_processes)
          /\ processes[p] = "stopped" => processes'[p] = "stopped"]_vars

C39_Witness ==
    \E p \in ProcIds :
        /\ os[p] = "exit1"
        /\ waitStatus[p] = "exit1"
        /\ waitPc[p] = "done"
        /\ rdOut[p] = "eof"
        /\ processes[p] = "running"
        /\ p \in running_processes
        /\ startResult[p] = "Ok"

====
